---- MODULE Spec2Model ----
(***************************************************************************)
(* A model of oclapi/views.py: the mixins that walk a hierarchical URL     *)
(* path to its ancestor resources (PathWalkerMixin), look an object up and *)
(* soft-delete it (BaseAPIView), and scope a queryset to the resolved      *)
(* ancestors (SubResourceMixin, VersionedResourceChildMixin,               *)
(* ResourceVersionMixin, ResourceAttributeChildMixin).                     *)
(*                                                                         *)
(* A path is a sequence of one-character strings.  Python's 0-based string *)
(* indices are kept: character i of the Python string is path[i + 1].      *)
(***************************************************************************)
EXTENDS Integers, Sequences, FiniteSets, TLC

\* ---------------------------------------------------------------- bounds
MaxPathLen == 6        \* longest path_info handed to get_parent_in_path (PathSpec)
MaxLevels == 3         \* largest levels argument tried (PathSpec)
MaxSegments == 3       \* most segments of a request path (Spec)

\* ------------------------------------------------------------ PathWalker
SLASH == "/"
PathChars == {SLASH, "a", "b"}

\* The outcome of a get_parent_in_path call whose str.rindex found no '/'.
ValueError == <<"ValueError">>

\* str.rindex(SLASH, start, end): the highest 0-based index i with
\* start <= i < end and s[i] = '/', or -1 where Python raises ValueError.
RIndex(s, start, end) ==
    LET hits == {i \in 0..(Len(s) - 1) : i >= start /\ i < end /\ s[i + 1] = SLASH}
    IN  IF hits = {} THEN -1 ELSE CHOOSE i \in hits : \A j \in hits : j <= i

\* s[0:stop] of Python
Slice(s, stop) == SubSeq(s, 1, stop)

\* The first statements without the test for a trailing slash.
StripLastKeepsTrailing(path_info) ==
    LET last_slash == RIndex(path_info, 0, Len(path_info))
    IN  IF last_slash = -1 THEN ValueError ELSE Slice(path_info, last_slash + 1)

\* The first statements of get_parent_in_path (lines 18-22): drop what follows
\* the last slash, or, when the path ends with a slash, the last segment.
StripLast(path_info) ==
    LET last_index == Len(path_info) - 1
        last_slash == RIndex(path_info, 0, Len(path_info))
    IN  IF last_slash = -1 THEN ValueError
        ELSE IF last_slash = last_index
             THEN LET ls2 == RIndex(path_info, 0, last_index)
                  IN  IF ls2 = -1 THEN ValueError ELSE Slice(path_info, ls2 + 1)
             ELSE Slice(path_info, last_slash + 1)

\* The loop run once too often (while i <= levels).
RECURSIVE ParentLoopOffByOne(_, _, _)
ParentLoopOffByOne(path_info, i, levels) ==
    IF path_info = ValueError \/ ~(i <= levels) THEN path_info
    ELSE LET last_index == Len(path_info) - 1
             last_slash == RIndex(path_info, 0, last_index)
         IN  IF last_slash = -1 THEN ValueError
             ELSE ParentLoopOffByOne(Slice(path_info, last_slash + 1), i + 1, levels)

\* The while loop of get_parent_in_path (lines 24-29), from counter i.
RECURSIVE ParentLoop(_, _, _)
ParentLoop(path_info, i, levels) ==
    IF path_info = ValueError \/ ~(i < levels) THEN path_info
    ELSE LET last_index == Len(path_info) - 1
             last_slash == RIndex(path_info, 0, last_index)
         IN  IF last_slash = -1 THEN ValueError
             ELSE ParentLoop(Slice(path_info, last_slash + 1), i + 1, levels)

GetParentInPath(path_info, levels) ==
    LET first == StripLast(path_info)
    IN  IF levels > 1 THEN ParentLoop(first, 1, levels) ELSE first

\* ------------------------------------------------------------- the store
None == "None"
Ids == {"a", "b"}                 \* ids and mnemonics share one value space
Users == {None, "anon", "u1", "u2"}

\* A reference to a stored object: <<content type, id>>.
NoObj == <<None, None>>
Key(o) == <<o.type, o.id>>

Obj(t, i, m, own, pt, pid, vt, vid, ch, orgs, pub, cr) ==
    [type |-> t, id |-> i, mnemonic |-> m, is_active |-> TRUE, owner |-> own,
     parent_type |-> pt, parent_id |-> pid,
     versioned_object_type |-> vt, versioned_object_id |-> vid,
     children |-> ch, organizations |-> orgs, public |-> pub, created_at |-> cr]

\* The database before the request.  Ids are unique per content type only.
InitialObjects ==
    { Obj("Org", "a", "a", "u1", None, None, None, None, {}, <<>>, TRUE, 0),
      Obj("Org", "b", "b", "u2", None, None, None, None, {}, <<>>, FALSE, 0),
      Obj("UserProfile", "a", "a", "u1", None, None, None, None, {}, <<"a">>, TRUE, 0),
      Obj("UserProfile", "b", "b", "u2", None, None, None, None, {}, <<>>, TRUE, 0),
      Obj("Source", "a", "a", "u1", "Org", "a", None, None, {}, <<>>, FALSE, 0),
      Obj("Source", "b", "b", "u2", "UserProfile", "a", None, None, {}, <<>>, TRUE, 0),
      Obj("SourceVersion", "a", "a", "u1", None, None, "Source", "a", {"a"}, <<>>, FALSE, 1),
      Obj("SourceVersion", "b", "b", "u1", None, None, "Source", "a", {"a", "b"}, <<>>, FALSE, 2),
      Obj("Concept", "a", "a", "u1", "Source", "a", None, None, {}, <<>>, FALSE, 0),
      Obj("Concept", "b", "a", "u2", "Org", "a", None, None, {}, <<>>, TRUE, 0) }

Keys == {Key(o) : o \in InitialObjects}
InitialStore == [k \in Keys |-> CHOOSE o \in InitialObjects : Key(o) = k]

Lookups == Ids \cup {None}        \* kwargs.get(lookup_field, None)
VersionTypes == {"SourceVersion"}

\* hasattr(obj, 'versioned_object'): only version models have the attribute.
HasVersionedObject(k) == k # NoObj /\ k[1] \in VersionTypes
VersionedObjectOf(st, k) == <<st[k].versioned_object_type, st[k].versioned_object_id>>

\* hasattr(user, 'get_profile') and user.get_profile(): None and the
\* anonymous user have no profile.
HasGetProfile(user) == user \in {"u1", "u2"}
GetProfile(user) == <<"UserProfile", IF user = "u1" THEN "a" ELSE "b">>

\* ResourceVersionModel.get_latest_version_of: the newest version of the
\* object, NoObj when it has none.
GetLatestVersionOf(st, k) ==
    LET versions == {v \in DOMAIN st : /\ v[1] \in VersionTypes
                                       /\ VersionedObjectOf(st, v) = k}
    IN  IF versions = {} THEN NoObj
        ELSE CHOOSE v \in versions :
                 \A w \in versions : st[w].created_at <= st[v].created_at

\* ------------------------------------------------------------- the views
\* The concrete view classes a URL pattern can name: which mixin they extend
\* (kind), their model, whether they are a ListModelMixin or CreateModelMixin
\* (is_list), and their base_or_clause (a list of Q objects, here the names
\* of the boolean fields they test).  The keyword arguments of the pattern:
\* url_kwarg (the model's get_url_kwarg() is among them) and user_is_self.
Route(kind, model, is_list, boc, url_kwarg, user_is_self) ==
    [kind |-> kind, model |-> model, is_list |-> is_list, base_or_clause |-> boc,
     url_kwarg |-> url_kwarg, kw_user_is_self |-> user_is_self]

Routes ==
    {Route("Base", m, FALSE, <<>>, FALSE, FALSE) : m \in {"Org", "UserProfile"}}
    \cup {Route("Sub", m, l, IF m = "Source" THEN <<"public">> ELSE <<>>, FALSE, u) :
            m \in {"Source", "Concept"}, l \in BOOLEAN, u \in BOOLEAN}
    \cup {Route("VChild", "Concept", l, <<>>, k, FALSE) : l \in BOOLEAN, k \in BOOLEAN}
    \cup {Route("RVersion", "SourceVersion", FALSE, <<>>, FALSE, FALSE),
          Route("RAttr", "Concept", FALSE, <<>>, FALSE, FALSE)}

\* callback.cls(request=request, kwargs=callback_kwargs): a fresh view, with
\* the class attributes as declared.
NewView(route, path_info, depth) ==
    [kind |-> route.kind, model |-> route.model, is_list |-> route.is_list,
     base_or_clause |-> route.base_or_clause, url_kwarg |-> route.url_kwarg,
     kw_user_is_self |-> route.kw_user_is_self,
     path_info |-> path_info, depth |-> depth, pc |-> "initialize",
     user |-> None, userprofile |-> NoObj, user_is_self |-> FALSE,
     parent_path_info |-> <<>>, parent_resource |-> NoObj,
     parent_resource_version |-> NoObj,
     versioned_object_path_info |-> <<>>, versioned_object |-> NoObj,
     resource_version_path_info |-> <<>>, resource_version |-> NoObj,
     resolved |-> NoObj, resolved_from |-> <<>>]

\* ------------------------------------------------------------- querysets
\* GenericAPIView.get_queryset: every object of the view's model.
BaseGetQueryset(view, st) == {k \in DOMAIN st : k[1] = view.model}

\* A Q object of base_or_clause, applied to an object.
MatchesQ(q, o) == q = "public" /\ o.public

\* The or_clauses of SubResourceMixin.get_queryset, as one predicate.
SubOrClauses(view, st) ==
    LET orgs == IF view.userprofile # NoObj
                THEN st[view.userprofile].organizations ELSE <<>>
    IN  [has |-> \/ view.user # None
                 \/ Len(orgs) > 0
                 \/ Len(view.base_or_clause) > 0,
         owner |-> view.user,
         use_owner |-> view.user # None,
         orgs |-> {orgs[i] : i \in 1..Len(orgs)},
         qs |-> {view.base_or_clause[i] : i \in 1..Len(view.base_or_clause)}]

\* self.parent_resource as SubResourceMixin.get_queryset leaves it.
SubParentResource(view, st) ==
    IF view.parent_resource # NoObj /\ HasVersionedObject(view.parent_resource)
    THEN VersionedObjectOf(st, view.parent_resource)
    ELSE view.parent_resource

\* The parent filter on parent_id alone.
SubGetQuerysetByParentId(view, st) ==
    LET oc == SubOrClauses(view, st)
        parent == SubParentResource(view, st)
        q1 == IF oc.has
              THEN {k \in BaseGetQueryset(view, st) :
                       \/ oc.use_owner /\ st[k].owner = oc.owner
                       \/ st[k].parent_id \in oc.orgs
                       \/ \E q \in oc.qs : MatchesQ(q, st[k])}
              ELSE BaseGetQueryset(view, st)
    IN  IF parent # NoObj THEN {k \in q1 : st[k].parent_id = parent[2]} ELSE q1

SubGetQueryset(view, st) ==
    LET oc == SubOrClauses(view, st)
        parent == SubParentResource(view, st)
        q1 == IF oc.has
              THEN {k \in BaseGetQueryset(view, st) :
                       \/ oc.use_owner /\ st[k].owner = oc.owner
                       \/ st[k].parent_id \in oc.orgs
                       \/ \E q \in oc.qs : MatchesQ(q, st[k])}
              ELSE BaseGetQueryset(view, st)
    IN  IF parent # NoObj
        THEN {k \in q1 : st[k].parent_type = parent[1] /\ st[k].parent_id = parent[2]}
        ELSE q1

\* VersionedResourceChildMixin.get_queryset; getattr on a missing version
\* raises.
VChildGetQueryset(view, lookup, st) ==
    IF lookup # None
    THEN [err |-> FALSE, objs |-> {k \in DOMAIN st : k[1] = view.model /\ k[2] = lookup}]
    ELSE IF view.parent_resource_version = NoObj
         THEN [err |-> TRUE, objs |-> {}]
         ELSE LET all_children == st[view.parent_resource_version].children
              IN  [err |-> FALSE,
                   objs |-> {k \in BaseGetQueryset(view, st) : k[2] \in all_children}]

\* The version filter on versioned_object_type alone.
RVersionGetQuerysetByType(view, st) ==
    {k \in BaseGetQueryset(view, st) :
        st[k].versioned_object_type = view.versioned_object[1]}

\* ResourceVersionMixin.get_queryset
RVersionGetQueryset(view, st) ==
    {k \in BaseGetQueryset(view, st) :
        /\ st[k].versioned_object_type = view.versioned_object[1]
        /\ st[k].versioned_object_id = view.versioned_object[2]}

\* self.get_queryset(), dispatched on the view's class.
GetQueryset(view, lookup, st) ==
    CASE view.kind = "Sub" -> [err |-> FALSE, objs |-> SubGetQueryset(view, st)]
      [] view.kind = "VChild" -> VChildGetQueryset(view, lookup, st)
      [] view.kind = "RVersion" -> [err |-> FALSE, objs |-> RVersionGetQueryset(view, st)]
      [] OTHER -> [err |-> FALSE, objs |-> BaseGetQueryset(view, st)]

\* The view after get_queryset ran (SubResourceMixin rebinds parent_resource).
AfterGetQueryset(view, st) ==
    IF view.kind = "Sub" THEN [view EXCEPT !.parent_resource = SubParentResource(view, st)]
    ELSE view

\* get_object without the call of check_object_permissions.
GetObjectUnchecked(view, lookup, permitted, st) ==
    LET qs == GetQueryset(view, lookup, st)
        found == {k \in qs.objs : st[k].mnemonic = lookup}
    IN  IF qs.err THEN [outcome |-> "error", obj |-> NoObj]
        ELSE IF found = {} THEN [outcome |-> "not_found", obj |-> NoObj]
        ELSE IF Cardinality(found) > 1 THEN [outcome |-> "error", obj |-> NoObj]
        ELSE [outcome |-> "ok", obj |-> CHOOSE k \in found : TRUE]

\* get_object with first() in place of get_object_or_404: no match gives None.
GetObjectOrNone(view, lookup, permitted, st) ==
    LET qs == GetQueryset(view, lookup, st)
        found == {k \in qs.objs : st[k].mnemonic = lookup}
    IN  IF qs.err THEN [outcome |-> "error", obj |-> NoObj]
        ELSE IF found = {} THEN [outcome |-> "ok", obj |-> NoObj]
        ELSE IF Cardinality(found) > 1 THEN [outcome |-> "error", obj |-> NoObj]
        ELSE IF ~permitted THEN [outcome |-> "permission_denied", obj |-> NoObj]
        ELSE [outcome |-> "ok", obj |-> CHOOSE k \in found : TRUE]

\* BaseAPIView.get_object: filter pk_field = lookup, get_object_or_404, then
\* check_object_permissions, whose verdict is the argument permitted.
GetObject(view, lookup, permitted, st) ==
    LET qs == GetQueryset(view, lookup, st)
        found == {k \in qs.objs : st[k].mnemonic = lookup}
    IN  IF qs.err THEN [outcome |-> "error", obj |-> NoObj]
        ELSE IF found = {} THEN [outcome |-> "not_found", obj |-> NoObj]
        ELSE IF Cardinality(found) > 1 THEN [outcome |-> "error", obj |-> NoObj]
        ELSE IF ~permitted THEN [outcome |-> "permission_denied", obj |-> NoObj]
        ELSE [outcome |-> "ok", obj |-> CHOOSE k \in found : TRUE]

\* ------------------------------------------------------------ initialize
ROOT == <<SLASH>>

\* What an initialize leaves to do: next is "done", "error" (an exception
\* other than the HTTP ones) or "call" (get_object_for_path on call_path).
Step(view, next, call_path) == [view |-> view, next |-> next, call_path |-> call_path]

\* BaseAPIView.initialize
BaseInitialize(view) == [view EXCEPT !.user_is_self = view.kw_user_is_self]

\* One level whatever the view.
SubLevelsAlwaysOne(view) == 1

\* SubResourceMixin.initialize, up to the call of get_object_for_path.
SubLevels(view) == IF view.is_list THEN 1 ELSE 2

SubInitialize(view, user) ==
    LET v1 == [BaseInitialize(view) EXCEPT !.user = user]
        v2 == IF user # None /\ HasGetProfile(user)
              THEN [v1 EXCEPT !.userprofile = GetProfile(user)] ELSE v1
    IN  IF v2.user_is_self /\ v2.userprofile # NoObj
        THEN Step([v2 EXCEPT !.parent_resource = v2.userprofile], "done", <<>>)
        ELSE LET pp == GetParentInPath(view.path_info, SubLevels(view))
                 v3 == [v2 EXCEPT !.parent_path_info = pp, !.parent_resource = NoObj]
             IN  IF pp = ValueError THEN Step(v2, "error", <<>>)
                 ELSE IF pp # <<>> /\ pp # ROOT THEN Step(v3, "call", pp)
                 ELSE Step(v3, "done", <<>>)

\* Lines 146-150 without the rebinding of parent_resource to the versioned
\* object.
VChildBindVersionKeepsParent(view, raises, st) ==
    IF HasVersionedObject(view.parent_resource)
    THEN Step([view EXCEPT !.parent_resource_version = view.parent_resource],
              "done", <<>>)
    ELSE LET latest == GetLatestVersionOf(st, view.parent_resource)
         IN  IF latest = NoObj /\ raises THEN Step(view, "error", <<>>)
             ELSE Step([view EXCEPT !.parent_resource_version = latest], "done", <<>>)

\* VersionedResourceChildMixin.initialize, lines 146-150: the version and the
\* versioned object, once parent_resource is bound.  raises: whether
\* get_latest_version_of raises where there is no version to return.
VChildBindVersion(view, raises, st) ==
    IF HasVersionedObject(view.parent_resource)
    THEN Step([view EXCEPT !.parent_resource_version = view.parent_resource,
                           !.parent_resource = VersionedObjectOf(st, view.parent_resource)],
              "done", <<>>)
    ELSE LET latest == GetLatestVersionOf(st, view.parent_resource)
         IN  IF latest = NoObj /\ raises THEN Step(view, "error", <<>>)
             ELSE Step([view EXCEPT !.parent_resource_version = latest], "done", <<>>)

VChildLevels(view) ==
    (IF view.url_kwarg THEN 1 ELSE 0) + (IF view.is_list THEN 1 ELSE 2)

\* VersionedResourceChildMixin.initialize, lines 140-145.
VChildInitialize(view, raises, st) ==
    LET pp == GetParentInPath(view.path_info, VChildLevels(view))
        v1 == [view EXCEPT !.parent_path_info = pp, !.parent_resource = NoObj]
    IN  IF pp = ValueError THEN Step(view, "error", <<>>)
        ELSE IF pp # <<>> /\ pp # ROOT THEN Step(v1, "call", pp)
        ELSE VChildBindVersion(v1, raises, st)

\* ResourceVersionMixin.initialize, up to the call.
RVersionInitialize(view) ==
    LET pp == GetParentInPath(view.path_info, 1)
    IN  IF pp = ValueError THEN Step(BaseInitialize(view), "error", <<>>)
        ELSE Step([BaseInitialize(view) EXCEPT !.versioned_object_path_info = pp], "call", pp)

\* ResourceAttributeChildMixin.initialize, up to the call.
RAttrInitialize(view) ==
    LET pp == GetParentInPath(view.path_info, 1)
    IN  IF pp = ValueError THEN Step(BaseInitialize(view), "error", <<>>)
        ELSE Step([BaseInitialize(view) EXCEPT !.resource_version_path_info = pp], "call", pp)

\* The rest of the caller's initialize once get_object_for_path returned obj.
Resume(view, obj, raises, st) ==
    CASE view.kind = "Sub" -> Step([view EXCEPT !.parent_resource = obj], "done", <<>>)
      [] view.kind = "VChild" ->
            VChildBindVersion([view EXCEPT !.parent_resource = obj], raises, st)
      [] view.kind = "RVersion" -> Step([view EXCEPT !.versioned_object = obj], "done", <<>>)
      [] OTHER -> Step([view EXCEPT !.resource_version = obj], "done", <<>>)

\* ------------------------------------------------------ the state machine
VARIABLES
    store,      \* the database: object reference -> its fields
    request,    \* the request being served: path_info, user, op
    stack,      \* the views being initialized, the requesting view first
    status,     \* "idle", "running", or how the request ended
    log,        \* the get_object and get_queryset calls made, in order
    walk        \* one get_parent_in_path call (PathSpec)

vars == <<store, request, stack, status, log, walk>>

NoRequest == [path_info |-> <<>>, user |-> None, op |-> None]
NoWalk == [path_info |-> <<>>, levels |-> 1, result |-> <<>>, returned |-> FALSE]

\* "/" followed by n one-character segments, each followed by "/".
RECURSIVE Dir(_)
Dir(n) == IF n = 0 THEN ROOT ELSE Dir(n - 1) \o <<"a", SLASH>>

\* request.path_info: up to MaxSegments segments, with or without the
\* trailing slash.
RequestPaths ==
    {Dir(n) : n \in 0..MaxSegments}
    \cup {SubSeq(Dir(n), 1, Len(Dir(n)) - 1) : n \in 1..MaxSegments}

Ops == {"destroy", "list"}

Init ==
    /\ store = InitialStore
    /\ request = NoRequest
    /\ stack = <<>>
    /\ status = "idle"
    /\ log = <<>>
    /\ walk = NoWalk

Top == stack[Len(stack)]
SetTop(view) == [stack EXCEPT ![Len(stack)] = view]

\* An exception leaves every view of the request.
Raise(outcome) ==
    /\ status' = outcome
    /\ stack' = <<>>

\* resolve(path_info) of get_object_for_path: the URL configuration names a
\* view class for the path, or none (Resolver404).
NoRoute == [kind |-> None]

\* Carry out what an initialize decided.
Continue(step) ==
    IF step.next = "error" THEN Raise("error")
    ELSE IF step.next = "done"
    THEN /\ stack' = SetTop([step.view EXCEPT !.pc = "initialized"])
         /\ UNCHANGED status
    ELSE \E route \in Routes \cup {NoRoute} :
            IF route = NoRoute THEN Raise("not_found")
            ELSE /\ stack' = Append(SetTop([step.view EXCEPT !.pc = "waiting"]),
                                    NewView(route, step.call_path, Len(stack) + 1))
                 /\ UNCHANGED status

Initializing(kind) ==
    /\ status = "running"
    /\ stack # <<>>
    /\ Top.pc = "initialize"
    /\ Top.kind = kind

\* BaseAPIView.initial: the framework's own initial, then initialize on the
\* request's path.
Initial ==
    /\ status = "idle"
    /\ \E path_info \in RequestPaths, user \in Users, op \in Ops, route \in Routes :
          /\ request' = [path_info |-> path_info, user |-> user, op |-> op]
          /\ stack' = <<NewView(route, path_info, 1)>>
    /\ status' = "running"
    /\ UNCHANGED <<store, log, walk>>

InitializeBase ==
    /\ Initializing("Base")
    /\ Continue(Step(BaseInitialize(Top), "done", <<>>))
    /\ UNCHANGED <<store, request, log, walk>>

InitializeSub ==
    /\ Initializing("Sub")
    /\ Continue(SubInitialize(Top, request.user))
    /\ UNCHANGED <<store, request, log, walk>>

InitializeVChild ==
    /\ Initializing("VChild")
    /\ \E raises \in BOOLEAN : Continue(VChildInitialize(Top, raises, store))
    /\ UNCHANGED <<store, request, log, walk>>

InitializeRVersion ==
    /\ Initializing("RVersion")
    /\ Continue(RVersionInitialize(Top))
    /\ UNCHANGED <<store, request, log, walk>>

InitializeRAttr ==
    /\ Initializing("RAttr")
    /\ Continue(RAttrInitialize(Top))
    /\ UNCHANGED <<store, request, log, walk>>

\* One entry of the log.
Call(name, view, lookup, permitted, st, outcome, obj) ==
    [call |-> name, depth |-> view.depth, view |-> view, lookup |-> lookup,
     permitted |-> permitted, queryset |-> GetQueryset(view, lookup, st),
     outcome |-> outcome, obj |-> obj]

\* get_object_for_path, line 36: the ancestor view is initialized, its
\* get_object runs, and the caller's initialize goes on with the object.
GetObjectForPath ==
    /\ status = "running"
    /\ Len(stack) > 1
    /\ Top.pc = "initialized"
    /\ \E lookup \in Lookups, permitted \in BOOLEAN, raises \in BOOLEAN :
          LET got == GetObject(Top, lookup, permitted, store)
              caller == stack[Len(stack) - 1]
              step == Resume([caller EXCEPT !.resolved = got.obj,
                                            !.resolved_from = Top.path_info],
                             got.obj, raises, store)
          IN  /\ log' = Append(log, Call("get_object", Top, lookup, permitted, store,
                                         got.outcome, got.obj))
              /\ IF got.outcome # "ok" THEN Raise(got.outcome)
                 ELSE IF step.next = "error" THEN Raise("error")
                 ELSE /\ stack' = Append(SubSeq(stack, 1, Len(stack) - 2),
                                         [step.view EXCEPT !.pc = "initialized"])
                      /\ UNCHANGED status
    /\ UNCHANGED <<store, request, walk>>

Serving(op) ==
    /\ status = "running"
    /\ Len(stack) = 1
    /\ Top.pc = "initialized"
    /\ request.op = op

\* A hard delete: the row is removed.
SoftDeleteRemoves(st, k) == [j \in DOMAIN st \ {k} |-> st[j]]

\* obj.is_active = False; obj.save()
SoftDelete(st, k) == [st EXCEPT ![k].is_active = FALSE]

\* BaseAPIView.destroy
Destroy ==
    /\ Serving("destroy")
    /\ \E lookup \in Lookups, permitted \in BOOLEAN :
          LET got == GetObject(Top, lookup, permitted, store)
          IN  /\ log' = Append(log, Call("get_object", Top, lookup, permitted, store,
                                         got.outcome, got.obj))
              /\ IF got.outcome # "ok"
                 THEN Raise(got.outcome) /\ UNCHANGED store
                 ELSE /\ store' = SoftDelete(store, got.obj)
                      /\ stack' = SetTop(AfterGetQueryset(Top, store))
                      /\ status' = "204"
    /\ UNCHANGED <<request, walk>>

\* The framework's list: the response is the view's get_queryset.
List ==
    /\ Serving("list")
    /\ \E lookup \in Lookups :
          LET qs == GetQueryset(Top, lookup, store)
          IN  /\ log' = Append(log, Call("get_queryset", Top, lookup, TRUE, store,
                                         IF qs.err THEN "error" ELSE "ok", NoObj))
              /\ IF qs.err THEN Raise("error")
                 ELSE /\ stack' = SetTop(AfterGetQueryset(Top, store))
                      /\ status' = "200"
    /\ UNCHANGED <<store, request, walk>>

Next ==
    \/ Initial
    \/ InitializeBase
    \/ InitializeSub
    \/ InitializeVChild
    \/ InitializeRVersion
    \/ InitializeRAttr
    \/ GetObjectForPath
    \/ Destroy
    \/ List

Spec == Init /\ [][Next]_vars

\* ------------------------------------------- get_parent_in_path on its own
RECURSIVE SeqsUpTo(_)
SeqsUpTo(n) ==
    IF n = 0 THEN {<<>>}
    ELSE LET shorter == SeqsUpTo(n - 1)
         IN  shorter \cup {Append(s, c) : s \in {t \in shorter : Len(t) = n - 1},
                                          c \in PathChars}

PathInit ==
    /\ store = InitialStore
    /\ request = NoRequest
    /\ stack = <<>>
    /\ status = "idle"
    /\ log = <<>>
    /\ walk \in {[path_info |-> p, levels |-> n, result |-> <<>>, returned |-> FALSE] :
                    p \in SeqsUpTo(MaxPathLen), n \in 1..MaxLevels}

GetParent ==
    /\ ~walk.returned
    /\ walk' = [walk EXCEPT !.result = GetParentInPath(walk.path_info, walk.levels),
                            !.returned = TRUE]
    /\ UNCHANGED <<store, request, stack, status, log>>

PathNext == GetParent

PathSpec == PathInit /\ [][PathNext]_vars

\* --------------------------------------------- the vocabulary of the claims
\* The segments of a path: its maximal runs of characters other than '/'.
RECURSIVE Segments(_)
Segments(p) ==
    IF p = <<>> THEN <<>>
    ELSE LET rest == Segments(Tail(p))
         IN  IF Head(p) = SLASH THEN rest
             ELSE IF Len(p) > 1 /\ p[2] # SLASH
                  THEN <<(<<Head(p)>> \o Head(rest))>> \o Tail(rest)
                  ELSE <<(<<Head(p)>>)>> \o rest

\* '/' then each segment followed by '/'.
RECURSIVE Directory(_)
Directory(segs) ==
    IF segs = <<>> THEN ROOT
    ELSE Directory(SubSeq(segs, 1, Len(segs) - 1)) \o segs[Len(segs)] \o <<SLASH>>

\* A slash-delimited path: it starts with '/' and no segment is empty.
SlashDelimited(p) ==
    /\ p # <<>>
    /\ p[1] = SLASH
    /\ \A i \in 1..(Len(p) - 1) : ~(p[i] = SLASH /\ p[i + 1] = SLASH)

EndsWithSlash(p) == p # <<>> /\ p[Len(p)] = SLASH

\* The path with its last n segments removed.
WithoutLast(p, n) == Directory(SubSeq(Segments(p), 1, Len(Segments(p)) - n))

\* The same path with the trailing slash added or taken away.
OtherSpelling(p) ==
    IF EndsWithSlash(p) THEN SubSeq(p, 1, Len(p) - 1) ELSE Append(p, SLASH)

IsStrictPrefix(p, q) == Len(p) < Len(q) /\ p = SubSeq(q, 1, Len(p))

Logged == {log[i] : i \in 1..Len(log)}

\* The objects of a logged queryset whose pk_field equals the lookup value.
Matching(e) == {k \in e.queryset.objs : InitialStore[k].mnemonic = e.lookup}

RequestProfile ==
    IF HasGetProfile(request.user) THEN GetProfile(request.user) ELSE NoObj

\* ------------------------------------------------------------ the claims
\* C3: for a slash-delimited path with at least n segments, n >= 1,
\* get_parent_in_path(path, levels=n) returns the path without its last n
\* segments, the result ends with '/', and the path spelled with or without
\* its trailing slash gives the same result.
C3_ParentInPath ==
    (/\ walk.returned
     /\ SlashDelimited(walk.path_info)
     /\ walk.levels >= 1
     /\ Len(Segments(walk.path_info)) >= walk.levels)
    => /\ walk.result = WithoutLast(walk.path_info, walk.levels)
       /\ EndsWithSlash(walk.result)
       /\ GetParentInPath(OtherSpelling(walk.path_info), walk.levels) = walk.result

\* Two levels up from a three-segment path without a trailing slash.
C3_Witness ==
    /\ walk.returned
    /\ walk.path_info = <<SLASH, "a", SLASH, "b", SLASH, "b">>
    /\ walk.levels = 2
    /\ walk.result = <<SLASH, "a", SLASH>>

\* What destroy must leave of the store when it soft-deletes object k.
SoftDeleted(k) ==
    /\ DOMAIN store = DOMAIN InitialStore
    /\ k \in DOMAIN store
    /\ store[k] = [InitialStore[k] EXCEPT !.is_active = FALSE]
    /\ \A j \in DOMAIN store \ {k} : store[j] = InitialStore[j]

\* C1: destroy is a soft delete.  When the requesting view's get_object
\* succeeds, the object is still stored, now with is_active = False, no
\* other field and no other object differs, and the response is 204.
C1_SoftDelete ==
    \A e \in Logged :
        (request.op = "destroy" /\ e.depth = 1 /\ e.outcome = "ok")
        => /\ status = "204"
           /\ e.obj # NoObj
           /\ SoftDeleted(e.obj)

C1_Witness ==
    /\ status = "204"
    /\ ~store[<<"Source", "b">>].is_active
    /\ store[<<"Source", "a">>].is_active

\* C2: get_object returns an object only if it is in the view's queryset,
\* its mnemonic equals the lookup value and the permission check passed; no
\* match is 'not found', a failed check is 'permission denied', and then
\* the request ends with that outcome and the store as it was.
C2_GetObject ==
    \A e \in Logged :
        e.call = "get_object"
        => /\ e.obj # NoObj
                => /\ ~e.queryset.err
                   /\ e.obj \in Matching(e)
                   /\ e.permitted
           /\ (~e.queryset.err /\ Matching(e) = {}) => e.outcome = "not_found"
           /\ (~e.queryset.err /\ Cardinality(Matching(e)) = 1 /\ ~e.permitted)
                => e.outcome = "permission_denied"
           /\ e.outcome \in {"not_found", "permission_denied"}
                => status = e.outcome /\ store = InitialStore

\* destroy on an object the user may not touch
C2_Witness ==
    /\ request.op = "destroy"
    /\ status = "permission_denied"
    /\ log # <<>>
    /\ log[Len(log)].depth = 1
    /\ Matching(log[Len(log)]) = {<<"Org", "b">>}
    /\ store = InitialStore

\* The organizations of the request user's profile.
RequestOrganizations ==
    IF RequestProfile = NoObj THEN {}
    ELSE LET orgs == InitialStore[RequestProfile].organizations
         IN  {orgs[i] : i \in 1..Len(orgs)}

\* The parent a sub-resource is scoped to: a version stands for its object.
ScopingParent(k) == IF HasVersionedObject(k) THEN VersionedObjectOf(InitialStore, k) ELSE k

\* C4: every object of SubResourceMixin.get_queryset (1) is owned by the
\* request user, or has an organization of the user's profile as parent_id,
\* or matches an entry of base_or_clause, when any of the three is present;
\* and (2) has the resolved parent resource (a version's versioned object) as
\* parent_type and parent_id.
C4_SubQueryset ==
    \A e \in Logged :
        e.view.kind = "Sub"
        => \A k \in e.queryset.objs :
              /\ (\/ request.user # None
                  \/ RequestOrganizations # {}
                  \/ e.view.base_or_clause # <<>>)
                 => \/ request.user # None /\ InitialStore[k].owner = request.user
                    \/ InitialStore[k].parent_id \in RequestOrganizations
                    \/ \E i \in 1..Len(e.view.base_or_clause) :
                          MatchesQ(e.view.base_or_clause[i], InitialStore[k])
              /\ e.view.parent_resource # NoObj
                 => /\ InitialStore[k].parent_type = ScopingParent(e.view.parent_resource)[1]
                    /\ InitialStore[k].parent_id = ScopingParent(e.view.parent_resource)[2]

\* The concepts of a source reached through one of its versions.
C4_Witness ==
    \E e \in Logged :
        /\ e.view.kind = "Sub"
        /\ request.user = "u1"
        /\ e.view.parent_resource = <<"SourceVersion", "a">>
        /\ e.queryset.objs = {<<"Concept", "a">>}

\* C5: every object of VersionedResourceChildMixin.get_queryset has its id
\* in the child list of the parent resource version, with or without a
\* lookup value in the URL.
C5_ChildrenOnly ==
    \A e \in Logged :
        (/\ e.view.kind = "VChild"
         /\ e.view.parent_resource_version # NoObj
         /\ ~e.queryset.err)
        => \A k \in e.queryset.objs :
              k[2] \in InitialStore[e.view.parent_resource_version].children

\* C6: the versioned object of a ResourceVersionMixin view is the object
\* resolved from the path one level above the view's path, and every version
\* of its queryset has that object's type and id as versioned object.
C6_VersionsOfObject ==
    \A e \in Logged :
        e.view.kind = "RVersion"
        => /\ e.view.versioned_object # NoObj
           /\ e.view.versioned_object = e.view.resolved
           /\ e.view.resolved_from = WithoutLast(e.view.path_info, 1)
           /\ \A k \in e.queryset.objs :
                 /\ InitialStore[k].versioned_object_type = e.view.versioned_object[1]
                 /\ InitialStore[k].versioned_object_id = e.view.versioned_object[2]

C6_Witness ==
    \E e \in Logged :
        /\ e.view.kind = "RVersion"
        /\ e.view.versioned_object = <<"Source", "a">>
        /\ e.queryset.objs = {<<"SourceVersion", "a">>, <<"SourceVersion", "b">>}

Initialized(kind) ==
    {stack[i] : i \in {j \in 1..Len(stack) :
                          stack[j].kind = kind /\ stack[j].pc = "initialized"}}

VersionsOf(k) ==
    {v \in DOMAIN InitialStore :
        v[1] \in VersionTypes /\ VersionedObjectOf(InitialStore, v) = k}

\* C7: after VersionedResourceChildMixin.initialize, parent_resource_version
\* is a version of parent_resource.  The parent path is the view's path less
\* (1 if the URL keyword is given, else 0) + (1 for a list or create view,
\* else 2) segments; a version resolved from it is parent_resource_version
\* and its versioned object parent_resource, any other object resolved
\* from it is parent_resource and its latest version
\* parent_resource_version.
C7_ParentVersion ==
    \A v \in Initialized("VChild") :
        LET levels == (IF v.url_kwarg THEN 1 ELSE 0) + (IF v.is_list THEN 1 ELSE 2)
            r == v.resolved
        IN  /\ v.parent_path_info = WithoutLast(v.path_info, levels)
            /\ v.parent_path_info = ROOT
                 => r = NoObj /\ v.parent_resource = NoObj
            /\ v.parent_path_info # ROOT
                 => /\ r # NoObj
                    /\ v.resolved_from = v.parent_path_info
                    /\ r[1] \in VersionTypes
                         => /\ v.parent_resource_version = r
                            /\ v.parent_resource = VersionedObjectOf(InitialStore, r)
                    /\ r[1] \notin VersionTypes
                         => /\ v.parent_resource = r
                            /\ IF VersionsOf(r) = {}
                               THEN v.parent_resource_version = NoObj
                               ELSE /\ v.parent_resource_version \in VersionsOf(r)
                                    /\ \A w \in VersionsOf(r) :
                                          InitialStore[w].created_at
                                            <= InitialStore[v.parent_resource_version].created_at
            /\ v.parent_resource_version # NoObj
                 => v.parent_resource_version \in VersionsOf(v.parent_resource)

\* A concept list two levels under a source: the source's latest version.
C7_Witness ==
    \E v \in Initialized("VChild") :
        /\ v.url_kwarg /\ v.is_list
        /\ v.path_info = Dir(3)
        /\ v.parent_path_info = Dir(1)
        /\ v.parent_resource = <<"Source", "a">>
        /\ v.parent_resource_version = <<"SourceVersion", "b">>

\* C8: SubResourceMixin.initialize binds the parent resource to the request
\* user's profile, walking no path, when user_is_self is set and the user
\* has a profile; otherwise to the object resolved from the view's path less
\* one segment (a list or create view) or two (any other view), and to None
\* when that parent path is '/'.
C8_SubParent ==
    status = "running"
    => \A v \in Initialized("Sub") :
          IF v.kw_user_is_self /\ RequestProfile # NoObj
          THEN /\ v.parent_resource = RequestProfile
               /\ v.parent_path_info = <<>>
               /\ v.resolved_from = <<>>
          ELSE /\ v.parent_path_info
                    = WithoutLast(v.path_info, IF v.is_list THEN 1 ELSE 2)
               /\ IF v.parent_path_info = ROOT
                  THEN v.parent_resource = NoObj /\ v.resolved_from = <<>>
                  ELSE /\ v.parent_resource # NoObj
                       /\ v.parent_resource = v.resolved
                       /\ v.resolved_from = v.parent_path_info

\* A detail view two levels under an organization.
C8_Witness ==
    /\ status = "running"
    /\ \E v \in Initialized("Sub") :
          /\ ~v.is_list
          /\ v.path_info = SubSeq(Dir(3), 1, Len(Dir(3)) - 1)
          /\ v.parent_path_info = Dir(1)
          /\ v.parent_resource = <<"Org", "a">>

\* A logged ancestor lookup that found nothing, or whose permission check
\* failed.
AncestorFailure(e) ==
    /\ e.depth > 1
    /\ ~e.queryset.err
    /\ \/ Matching(e) = {}
       \/ Cardinality(Matching(e)) = 1 /\ ~e.permitted

\* C9: ancestors are resolved before the requesting view's queryset is
\* built, and an ancestor that is not found or not permitted ends the
\* request with that outcome: the requesting view's get_queryset is never
\* evaluated and no object is modified.
C9_AncestorFailure ==
    \A i \in 1..Len(log) :
        /\ AncestorFailure(log[i])
             => /\ status = IF Matching(log[i]) = {} THEN "not_found"
                            ELSE "permission_denied"
                /\ i = Len(log)
                /\ \A j \in 1..Len(log) : log[j].depth # 1
                /\ store = InitialStore
        /\ log[i].depth = 1
             => /\ i = Len(log)
                /\ log[i].view.pc = "initialized"
                /\ Len(stack) <= 1
                /\ \A j \in 1..(i - 1) : log[j].depth > 1 /\ log[j].outcome = "ok"

\* The grandparent was found, the parent was not.
C9_Witness ==
    /\ Len(log) = 2
    /\ log[1].depth = 3 /\ log[1].outcome = "ok"
    /\ AncestorFailure(log[2]) /\ log[2].permitted
    /\ status = "not_found"

\* The guard of some step of the request holds.
CanStep ==
    \/ \E kind \in {"Base", "Sub", "VChild", "RVersion", "RAttr"} : Initializing(kind)
    \/ status = "running" /\ Len(stack) > 1 /\ Top.pc = "initialized"
    \/ \E op \in Ops : Serving(op)

\* C10: the nested initialize calls end.  Each ancestor view is initialized
\* on a non-empty strict prefix of its caller's path that ends with '/', so
\* there are at most as many of them as the request path has segments, and a
\* running request always has a next step.
C10_Terminates ==
    /\ \A i \in 2..Len(stack) :
          /\ stack[i].path_info # <<>>
          /\ EndsWithSlash(stack[i].path_info)
          /\ IsStrictPrefix(stack[i].path_info, stack[i - 1].path_info)
    /\ stack # <<>> => stack[1].path_info = request.path_info
    /\ Len(stack) - 1 <= Len(Segments(request.path_info))
    /\ status = "running" => CanStep

\* As many ancestors as segments: the last one is the view of '/'.
C10_Witness ==
    /\ Len(stack) = 4
    /\ Len(Segments(request.path_info)) = 3
    /\ stack[4].path_info = ROOT

====
